---- MODULE Spec2Model ----
(***************************************************************************)
(* A model of bennet.config.Config (src/bennet/config/config.py): a        *)
(* settings store kept in a configparser.ConfigParser, an Observable that  *)
(* is told of changes and removals, and a backing INI file.                *)
(*                                                                         *)
(* Text (section names, keys, values, attribute names, file lines) is a    *)
(* sequence of one-character strings, so that lower-casing, trimming,      *)
(* interpolation, name splitting, writing and parsing are computed and not *)
(* assumed.  A dictionary is a sequence of <<key, value>> pairs in         *)
(* insertion order, as a Python dict is.  The texts of the model hold no   *)
(* line break, tab or comment prefix, and no key starts with a blank, so   *)
(* a file never holds a continuation line or a comment.                    *)
(***************************************************************************)
EXTENDS Integers, Sequences, FiniteSets, TLC

VARIABLES
    sections,   \* config._sections: sequence of <<name, items>>, items a dictionary
    defaults,   \* config._defaults: the dictionary of the default section
    attrs,      \* the instance's ordinary attributes set through __setattr__
    handlers,   \* the Observable: event name -> sequence of handler behaviours
    file,       \* the file at self.filename: NoFile or a sequence of lines
    last,       \* the last call made on the Config and its outcome
    track,      \* history: the last set that returned, and the save and the
                \* construction that followed it with no other call between
    nops        \* number of calls made so far

vars == <<sections, defaults, attrs, handlers, file, last, track, nops>>

(***************************************************************************)
(* Bounds of the model.                                                    *)
(***************************************************************************)
MaxOps == 2          \* calls made on one Config in a run of Spec
MaxPersistOps == 3   \* calls made in a run of SpecPersist
MaxHandlers == 2     \* handlers subscribed to one event

(***************************************************************************)
(* Values of the language and of the library.                              *)
(***************************************************************************)
None == <<"None">>
NoFile == <<"NoFile">>
Self == <<"self">>
DEFAULTSECT == <<"D", "E", "F", "A", "U", "L", "T">>

(***************************************************************************)
(* Text.                                                                   *)
(***************************************************************************)
IsSpace(c) == c = " "

RECURSIVE LStrip(_)
LStrip(s) == IF s # <<>> /\ IsSpace(Head(s)) THEN LStrip(Tail(s)) ELSE s

RECURSIVE RStrip(_)
RStrip(s) ==
    IF s # <<>> /\ IsSpace(s[Len(s)]) THEN RStrip(SubSeq(s, 1, Len(s) - 1)) ELSE s

Strip(s) == LStrip(RStrip(s))

\* str.find for a set of one-character needles: the first index, or 0.
Find(s, cs) ==
    IF \E i \in 1..Len(s) : s[i] \in cs
    THEN CHOOSE i \in 1..Len(s) : s[i] \in cs /\ \A j \in 1..(i - 1) : s[j] \notin cs
    ELSE 0

\* the last index of character c in s, or 0.
RFind(s, c) ==
    IF \E i \in 1..Len(s) : s[i] = c
    THEN CHOOSE i \in 1..Len(s) : s[i] = c /\ \A j \in (i + 1)..Len(s) : s[j] # c
    ELSE 0

From(s, i) == SubSeq(s, i, Len(s))

Lower(c) ==
    CASE c = "K" -> "k"
      [] c = "J" -> "j"
      [] c = "D" -> "d"
      [] c = "E" -> "e"
      [] c = "F" -> "f"
      [] c = "A" -> "a"
      [] c = "U" -> "u"
      [] c = "L" -> "l"
      [] c = "T" -> "t"
      [] OTHER -> c

\* str.lower
LowerCase(s) == [i \in 1..Len(s) |-> Lower(s[i])]

(***************************************************************************)
(* Dictionaries in insertion order.                                        *)
(***************************************************************************)
DictHas(d, k) == \E i \in 1..Len(d) : d[i][1] = k

DictIndex(d, k) == CHOOSE i \in 1..Len(d) : d[i][1] = k

DictGet(d, k) == d[DictIndex(d, k)][2]

DictSet(d, k, v) ==
    IF DictHas(d, k) THEN [d EXCEPT ![DictIndex(d, k)] = <<k, v>>]
    ELSE Append(d, <<k, v>>)

DictDel(d, k) == SelectSeq(d, LAMBDA e : e[1] # k)

DictKeys(d) == {d[i][1] : i \in 1..Len(d)}

\* dict.update: the entries of e written over those of d.
RECURSIVE DictUpdate(_, _)
DictUpdate(d, e) ==
    IF e = <<>> THEN d ELSE DictUpdate(DictSet(d, e[1][1], e[1][2]), Tail(e))

(***************************************************************************)
(* The parser's view of the store.                                         *)
(***************************************************************************)
optionxform_preserving(option) == option

\* ConfigParser() is built with the default optionxform, str.lower.
optionxform(option) == LowerCase(option)

has_section(secs, section) == DictHas(secs, section)

\* _unify_values: the section's own items, then the defaults.
ChainHas(secs, defs, section, option) ==
    \/ (has_section(secs, section) /\ DictHas(DictGet(secs, section), option))
    \/ DictHas(defs, option)

ChainGet(secs, defs, section, option) ==
    IF has_section(secs, section) /\ DictHas(DictGet(secs, section), option)
    THEN DictGet(DictGet(secs, section), option)
    ELSE DictGet(defs, option)

(***************************************************************************)
(* BasicInterpolation, the interpolation ConfigParser() is built with.     *)
(***************************************************************************)
\* _KEYCRE = %\(([^)]+)\)s matched at the start of rest: the index of the
\* closing "s", or 0 when it does not match.
KeyMatchEnd(rest) ==
    LET p == Find(rest, {")"})
    IN  IF /\ Len(rest) >= 5
           /\ rest[1] = "%"
           /\ rest[2] = "("
           /\ p >= 4
           /\ p < Len(rest)
           /\ rest[p + 1] = "s"
        THEN p + 1
        ELSE 0

\* value.replace('%%', '')
RECURSIVE DropEscapes(_)
DropEscapes(s) ==
    IF s = <<>> THEN <<>>
    ELSE IF Len(s) >= 2 /\ s[1] = "%" /\ s[2] = "%" THEN DropEscapes(From(s, 3))
    ELSE <<Head(s)>> \o DropEscapes(Tail(s))

\* _KEYCRE.sub('', s)
RECURSIVE DropReferences(_)
DropReferences(s) ==
    IF s = <<>> THEN <<>>
    ELSE IF KeyMatchEnd(s) > 0 THEN DropReferences(From(s, KeyMatchEnd(s) + 1))
    ELSE <<Head(s)>> \o DropReferences(Tail(s))

\* before_set: TRUE when the value is accepted, FALSE when it raises ValueError.
before_set(value) == Find(DropReferences(DropEscapes(value)), {"%"}) = 0

Ok(s) == [exc |-> "none", val |-> s]
Raise(e) == [exc |-> e, val |-> <<>>]
Cat(prefix, r) == IF r.exc = "none" THEN Ok(prefix \o r.val) ELSE r

\* _interpolate_some, the text appended to accum as the result.
RECURSIVE InterpolateSome(_, _, _, _, _)
InterpolateSome(rest, secs, defs, section, depth) ==
    \* configparser.MAX_INTERPOLATION_DEPTH is 10
    IF depth > 10 THEN Raise("InterpolationDepthError")
    ELSE IF rest = <<>> THEN Ok(<<>>)
    ELSE
      LET p == Find(rest, {"%"})
      IN  IF p = 0 THEN Ok(rest)
          ELSE IF p > 1
            THEN Cat(SubSeq(rest, 1, p - 1),
                     InterpolateSome(From(rest, p), secs, defs, section, depth))
          ELSE IF Len(rest) >= 2 /\ rest[2] = "%"
            THEN Cat(<<"%">>, InterpolateSome(From(rest, 3), secs, defs, section, depth))
          ELSE IF Len(rest) >= 2 /\ rest[2] = "("
            THEN
              LET m == KeyMatchEnd(rest)
                  var == optionxform(SubSeq(rest, 3, m - 2))
              IN  IF m = 0 THEN Raise("InterpolationSyntaxError")
                  ELSE IF ~ChainHas(secs, defs, section, var)
                    THEN Raise("InterpolationMissingOptionError")
                  ELSE
                    LET v == ChainGet(secs, defs, section, var)
                        first == IF Find(v, {"%"}) > 0
                                 THEN InterpolateSome(v, secs, defs, section, depth + 1)
                                 ELSE Ok(v)
                    IN  IF first.exc # "none" THEN first
                        ELSE Cat(first.val,
                                 InterpolateSome(From(rest, m + 1), secs, defs,
                                                 section, depth))
          ELSE Raise("InterpolationSyntaxError")

before_get(value, secs, defs, section) == InterpolateSome(value, secs, defs, section, 1)

(***************************************************************************)
(* ConfigParser's lookups and updates as Config calls them.                *)
(***************************************************************************)
\* config.get(section, key): a value, or the exception it raises.
parser_get(secs, defs, section, key) ==
    IF ~has_section(secs, section) /\ section # DEFAULTSECT THEN Raise("NoSectionError")
    ELSE IF ~ChainHas(secs, defs, section, optionxform(key)) THEN Raise("NoOptionError")
    ELSE before_get(ChainGet(secs, defs, section, optionxform(key)), secs, defs, section)

\* config.has_option(section, key): an empty section name stands for DEFAULT.
has_option(secs, defs, section, key) ==
    IF section = <<>> \/ section = DEFAULTSECT THEN DictHas(defs, optionxform(key))
    ELSE IF ~has_section(secs, section) THEN FALSE
    ELSE \/ DictHas(DictGet(secs, section), optionxform(key))
         \/ DictHas(defs, optionxform(key))

\* config.set(section, key, value) on an existing section: the store after it.
parser_set(secs, defs, section, key, value) ==
    IF section = <<>> \/ section = DEFAULTSECT
    THEN [sections |-> secs, defaults |-> DictSet(defs, optionxform(key), value)]
    ELSE [sections |-> DictSet(secs, section,
                               DictSet(DictGet(secs, section), optionxform(key), value)),
          defaults |-> defs]

\* config.remove_option(section, key), called when has_option holds.
remove_option(secs, defs, section, key) ==
    IF section = <<>> \/ section = DEFAULTSECT
    THEN [sections |-> secs, defaults |-> DictDel(defs, optionxform(key))]
    ELSE [sections |-> DictSet(secs, section,
                               DictDel(DictGet(secs, section), optionxform(key))),
          defaults |-> defs]

\* config.remove_section(section)
remove_section(secs, section) == DictDel(secs, section)

(***************************************************************************)
(* The Observable.                                                         *)
(***************************************************************************)
\* trigger_event(event, args): the handlers of the event are called in
\* subscription order; a handler that raises ends the delivery.
FirstRaising(hs) ==
    IF \E i \in 1..Len(hs) : hs[i] = "raise"
    THEN CHOOSE i \in 1..Len(hs) :
             hs[i] = "raise" /\ \A j \in 1..(i - 1) : hs[j] # "raise"
    ELSE 0

trigger_event(obs, event, args) ==
    LET hs == obs[event]
        r == FirstRaising(hs)
        n == IF r = 0 THEN Len(hs) ELSE r
    IN  [calls |-> [i \in 1..n |-> [event |-> event, handler |-> i, args |-> args]],
         exc |-> IF r = 0 THEN "none" ELSE "HandlerError"]

(***************************************************************************)
(* Config's methods, as functions of the store and the Observable.  Each   *)
(* yields the store after the call, the value returned (ret), the          *)
(* exception that leaves the method (exc) and the handler calls made.      *)
(***************************************************************************)
get_uncaught(secs, defs, section, key, fallback) ==
    parser_get(secs, defs, section, key)

\* Config.get
get(secs, defs, section, key, fallback) ==
    LET r == parser_get(secs, defs, section, key)
    IN  IF r.exc \in {"NoSectionError", "NoOptionError"} THEN Ok(fallback) ELSE r

\* Config.get_default
get_default(secs, defs, key, fallback) == get(secs, defs, DEFAULTSECT, key, fallback)

\* the handler calls of one trigger_event, each with the store the handler sees
Seen(calls, secs, defs) ==
    [i \in 1..Len(calls) |->
        [event |-> calls[i].event, handler |-> calls[i].handler,
         args |-> calls[i].args, sections |-> secs, defaults |-> defs]]

set_notifying_first(secs, defs, obs, section, key, value) ==
    LET secs1 == IF ~has_section(secs, section) /\ section # DEFAULTSECT
                 THEN Append(secs, <<section, <<>>>>)
                 ELSE secs
    IN  IF value # <<>> /\ ~before_set(value)
        THEN [sections |-> secs1, defaults |-> defs, ret |-> None,
              exc |-> "ValueError", calls |-> <<>>]
        ELSE
          LET st == parser_set(secs1, defs, section, key, value)
              ev == trigger_event(obs, "setting_changed", <<section, key, value>>)
          IN  [sections |-> st.sections, defaults |-> st.defaults,
               ret |-> IF ev.exc = "none" THEN Self ELSE None,
               exc |-> ev.exc,
               calls |-> Seen(ev.calls, secs1, defs)]

\* Config.set
set(secs, defs, obs, section, key, value) ==
    LET secs1 == IF ~has_section(secs, section) /\ section # DEFAULTSECT
                 THEN Append(secs, <<section, <<>>>>)
                 ELSE secs
    IN  IF value # <<>> /\ ~before_set(value)
        THEN [sections |-> secs1, defaults |-> defs, ret |-> None,
              exc |-> "ValueError", calls |-> <<>>]
        ELSE
          LET st == parser_set(secs1, defs, section, key, value)
              ev == trigger_event(obs, "setting_changed", <<section, key, value>>)
          IN  [sections |-> st.sections, defaults |-> st.defaults,
               ret |-> IF ev.exc = "none" THEN Self ELSE None,
               exc |-> ev.exc,
               calls |-> Seen(ev.calls, st.sections, st.defaults)]

\* Config.set_default
set_default(secs, defs, obs, key, value) == set(secs, defs, obs, DEFAULTSECT, key, value)

\* Config.remove: every exception, a handler's included, is caught and
\* turned into False.
remove(secs, defs, obs, section, key) ==
    LET found == IF key = None THEN has_section(secs, section)
                 ELSE has_option(secs, defs, section, key)
        st == IF key = None
              THEN [sections |-> remove_section(secs, section), defaults |-> defs]
              ELSE remove_option(secs, defs, section, key)
        ev == trigger_event(obs, "setting_removed", <<section, key>>)
    IN  IF found
        THEN [sections |-> st.sections, defaults |-> st.defaults,
              ret |-> (ev.exc = "none"), exc |-> "none",
              calls |-> Seen(ev.calls, st.sections, st.defaults)]
        ELSE [sections |-> secs, defaults |-> defs, ret |-> FALSE, exc |-> "none",
              calls |-> <<>>]

\* the dictionary comprehension of to_dict over the keys of one section
RECURSIVE section_data(_, _, _, _)
section_data(keys, secs, defs, isection) ==
    IF keys = <<>> THEN Ok(<<>>)
    ELSE
      LET r == parser_get(secs, defs, isection, keys[1][1])
          rest == section_data(Tail(keys), secs, defs, isection)
      IN  IF r.exc # "none" THEN r
          ELSE IF rest.exc # "none" THEN rest
          ELSE Ok(<<<<keys[1][1], r.val>>>> \o rest.val)

options_own(secs, defs, isection) == DictGet(secs, isection)

\* config.options(isection), the keys to_dict reads for a section: the
\* section's own items updated with the defaults.
options(secs, defs, isection) == DictUpdate(DictGet(secs, isection), defs)

RECURSIVE config_data(_, _, _)
config_data(i, secs, defs) ==
    IF i > Len(secs) THEN Ok(<<>>)
    ELSE
      LET r == section_data(options(secs, defs, secs[i][1]), secs, defs, secs[i][1])
          rest == config_data(i + 1, secs, defs)
      IN  IF r.exc # "none" THEN r
          ELSE IF rest.exc # "none" THEN rest
          ELSE Ok(<<<<secs[i][1], r.val>>>> \o rest.val)

\* Config.to_dict
to_dict(secs, defs, section) ==
    LET all == config_data(1, secs, defs)
    IN  IF all.exc # "none" THEN all
        ELSE IF section = None THEN all
        ELSE IF DictHas(all.val, section) THEN Ok(DictGet(all.val, section))
        ELSE Ok(None)

(***************************************************************************)
(* The file: config.write and config.read.                                 *)
(***************************************************************************)
write_item(item) == item[1] \o <<" ", "=", " ">> \o item[2]

write_section(name, items) ==
    <<(<<"[">> \o name \o <<"]">>)>>
        \o [i \in 1..Len(items) |-> write_item(items[i])]
        \o <<(<<>>)>>

RECURSIVE write_sections(_)
write_sections(secs) ==
    IF secs = <<>> THEN <<>>
    ELSE write_section(secs[1][1], secs[1][2]) \o write_sections(Tail(secs))

\* config.write(configfile): the lines of the file
write(secs, defs) ==
    (IF defs # <<>> THEN write_section(DEFAULTSECT, defs) ELSE <<>>)
        \o write_sections(secs)

\* SECTCRE = \[(.+)\] matched at the start of a stripped line: the index of
\* the closing bracket, or 0.
HeaderEnd(value) ==
    IF value[1] = "[" /\ RFind(value, "]") >= 3 THEN RFind(value, "]") ELSE 0

\* cursect[optname] = optval
SetInSection(st, optname, optval) ==
    IF st.cursect = DEFAULTSECT
    THEN [st EXCEPT !.defaults = DictSet(@, optname, optval)]
    ELSE [st EXCEPT !.sections =
              DictSet(@, st.cursect, DictSet(DictGet(@, st.cursect), optname, optval))]

\* _read, line by line.  st.err is the ParsingError kept for the end of the
\* file; st.exc is the exception raised at once.
RECURSIVE read_lines(_, _, _)
read_lines(lines, i, st) ==
    IF i > Len(lines)
    THEN IF st.err THEN [st EXCEPT !.exc = "ParsingError"] ELSE st
    ELSE
      LET value == Strip(lines[i])
          q == HeaderEnd(value)
          sectname == SubSeq(value, 2, q - 1)
          d == Find(value, {"=", ":"})
          optname == optionxform(RStrip(SubSeq(value, 1, d - 1)))
          optval == Strip(From(value, d + 1))
      IN  IF value = <<>> \/ value[1] \in {"#", ";"} THEN read_lines(lines, i + 1, st)
          ELSE IF q > 0
            THEN IF has_section(st.sections, sectname)
                   THEN IF sectname \in st.addedSections
                          THEN [st EXCEPT !.exc = "DuplicateSectionError"]
                          ELSE read_lines(lines, i + 1,
                                 [st EXCEPT !.cursect = sectname,
                                            !.addedSections = @ \cup {sectname}])
                 ELSE IF sectname = DEFAULTSECT
                   THEN read_lines(lines, i + 1, [st EXCEPT !.cursect = DEFAULTSECT])
                 ELSE read_lines(lines, i + 1,
                        [st EXCEPT !.sections = Append(@, <<sectname, <<>>>>),
                                   !.cursect = sectname,
                                   !.addedSections = @ \cup {sectname}])
          ELSE IF st.cursect = None
            THEN [st EXCEPT !.exc = "MissingSectionHeaderError"]
          ELSE IF d = 0 THEN read_lines(lines, i + 1, [st EXCEPT !.err = TRUE])
          ELSE IF <<st.cursect, optname>> \in st.addedOptions
            THEN [st EXCEPT !.exc = "DuplicateOptionError"]
          ELSE read_lines(lines, i + 1,
                 [SetInSection(st, optname, optval)
                    EXCEPT !.addedOptions = @ \cup {<<st.cursect, optname>>},
                           !.err = @ \/ (d = 1)])

\* config.read(filename): a file that cannot be opened is skipped.
read(secs, defs, f) ==
    IF f = NoFile
    THEN [sections |-> secs, defaults |-> defs, exc |-> "none"]
    ELSE LET st == read_lines(f, 1,
                     [sections |-> secs, defaults |-> defs, cursect |-> None,
                      addedSections |-> {}, addedOptions |-> {},
                      err |-> FALSE, exc |-> "none"])
         IN  [sections |-> st.sections, defaults |-> st.defaults, exc |-> st.exc]

\* Config.load: the parser's exceptions are logged and raised again.
load(secs, defs, f) == read(secs, defs, f)

\* Config.save: the file is overwritten with the whole store.
save(secs, defs) == write(secs, defs)

\* Config.__init__: an empty parser, then load().
construct(f) == load(<<>>, <<>>, f)

(***************************************************************************)
(* The arguments the calls are made with.                                  *)
(***************************************************************************)
Sections == {<<"s">>, <<>>, DEFAULTSECT}
Keys == {<<"k">>, <<"K">>}
Values == {<<"a">>, <<"%", "%">>, <<"%">>, <<"%", "(", "k", ")", "s">>}
Fallbacks == {<<"X">>}
DefaultFallbacks == {None}
DefaultValues == {<<"a">>}
AttrNames == {<<"s", "_", "k">>, <<"_", "k">>, <<"p">>}
AttrValues == {<<"a">>, <<"%">>}
Events == {"setting_changed", "setting_removed"}
Behaviours == {"ok", "raise"}

\* The files a Config is first constructed on: none, a file of one section,
\* and a file with a default section and a value that refers to it.
InitFiles ==
    { NoFile,
      << <<"[", "s", "]">>, <<"k", "=", "a">> >>,
      << <<"[">> \o DEFAULTSECT \o <<"]">>,
         <<"k", " ", "=", " ", "b">>,
         <<>>,
         <<"[", "s", "]">>,
         <<"j", " ", "=", " ", " ", "%", "(", "K", ")", "s">> >> }

\* The Observables a Config is constructed with: a fresh one, and two that
\* already have subscribers.
InitObservables ==
    { [e \in Events |-> <<>>],
      [e \in Events |-> IF e = "setting_changed" THEN <<"ok", "ok">> ELSE <<"ok">>],
      [e \in Events |-> IF e = "setting_changed" THEN <<"ok", "raise">> ELSE <<"raise">>] }

NoTrack == [stage |-> "none", section |-> None, key |-> None, value |-> None]

Outcome(op, via, section, key, value, ret, exc, outer, calls) ==
    [op |-> op, via |-> via, section |-> section, key |-> key, value |-> value,
     ret |-> ret, exc |-> exc, outer |-> outer, calls |-> calls]

(***************************************************************************)
(* The state after Config(filename) on one of the initial files.           *)
(***************************************************************************)
Init ==
    /\ file \in InitFiles
    /\ construct(file).exc = "none"
    /\ sections = construct(file).sections
    /\ defaults = construct(file).defaults
    /\ attrs = <<>>
    /\ handlers \in InitObservables
    /\ last = Outcome("__init__", "__init__", None, None, None, None, "none", "none", <<>>)
    /\ track = NoTrack
    /\ nops = 0

(***************************************************************************)
(* The calls.                                                              *)
(***************************************************************************)
\* what a call of set leaves in the history
TrackSet(r, section, key, value) ==
    IF r.exc = "none"
    THEN [stage |-> "set", section |-> section, key |-> key, value |-> value]
    ELSE NoTrack

DoSet(via, section, key, value) ==
    LET r == set(sections, defaults, handlers, section, key, value)
    IN  /\ sections' = r.sections
        /\ defaults' = r.defaults
        /\ last' = Outcome("set", via, section, key, value, r.ret, r.exc, r.exc, r.calls)
        /\ track' = TrackSet(r, section, key, value)
        /\ nops' = nops + 1
        /\ UNCHANGED <<attrs, handlers, file>>

\* config.set(section, key, value)
SetCall ==
    \E section \in Sections, key \in Keys, value \in Values :
        DoSet("set", section, key, value)

\* config.set_default(key, value)
SetDefaultCall ==
    \E key \in Keys, value \in DefaultValues :
        DoSet("set_default", DEFAULTSECT, key, value)

\* config.<name> = value, for a name that is none of filename, config, observable
SetAttrCall ==
    /\ \E name \in AttrNames, value \in AttrValues :
         LET i == Find(name, {"_"})
             section == SubSeq(name, 1, i - 1)
             key == From(name, i + 1)
             r == set(sections, defaults, handlers, section, key, value)
         IN  IF i = 0
             THEN /\ attrs' = DictSet(attrs, name, value)
                  /\ last' = Outcome("__setattr__", "__setattr__", None, None, value,
                                     None, "none", "none", <<>>)
                  /\ track' = NoTrack
                  /\ nops' = nops + 1
                  /\ UNCHANGED <<sections, defaults, handlers, file>>
             ELSE /\ sections' = r.sections
                  /\ defaults' = r.defaults
                  /\ attrs' = IF r.exc = "ValueError" THEN DictSet(attrs, name, value)
                              ELSE attrs
                  /\ last' = Outcome("set", "__setattr__", section, key, value, r.ret,
                                     r.exc,
                                     IF r.exc = "ValueError" THEN "none" ELSE r.exc,
                                     r.calls)
                  /\ track' = TrackSet(r, section, key, value)
                  /\ nops' = nops + 1
                  /\ UNCHANGED <<handlers, file>>

\* config.remove(section) and config.remove(section, key)
RemoveCall ==
    /\ \E section \in Sections, key \in Keys \cup {None} :
         LET r == remove(sections, defaults, handlers, section, key)
         IN  /\ sections' = r.sections
             /\ defaults' = r.defaults
             /\ last' = Outcome("remove", "remove", section, key, None, r.ret, r.exc,
                                r.exc, r.calls)
             /\ track' = NoTrack
             /\ nops' = nops + 1
             /\ UNCHANGED <<attrs, handlers, file>>

DoGet(via, section, key, fallback) ==
    LET r == get(sections, defaults, section, key, fallback)
    IN  /\ last' = Outcome("get", via, section, key, fallback,
                           IF r.exc = "none" THEN r.val ELSE None, r.exc, r.exc, <<>>)
        /\ nops' = nops + 1
        /\ UNCHANGED <<sections, defaults, attrs, handlers, file, track>>

\* config.get(section, key, fallback)
GetCall ==
    \E section \in Sections, key \in Keys, fallback \in Fallbacks :
        DoGet("get", section, key, fallback)

\* config.get_default(key, fallback)
GetDefaultCall ==
    \E key \in Keys, fallback \in DefaultFallbacks :
        DoGet("get_default", DEFAULTSECT, key, fallback)

\* config.to_dict() and config.to_dict(section)
ToDictCall ==
    /\ \E section \in Sections \cup {None} :
         LET r == to_dict(sections, defaults, section)
         IN  /\ last' = Outcome("to_dict", "to_dict", section, None, None,
                                IF r.exc = "none" THEN r.val ELSE None, r.exc, r.exc,
                                <<>>)
             /\ nops' = nops + 1
             /\ UNCHANGED <<sections, defaults, attrs, handlers, file, track>>

\* config.save()
SaveCall ==
    /\ file' = save(sections, defaults)
    /\ last' = Outcome("save", "save", None, None, None, None, "none", "none", <<>>)
    /\ track' = IF track.stage = "set" THEN [track EXCEPT !.stage = "saved"]
                ELSE IF track.stage = "saved" THEN track
                ELSE NoTrack
    /\ nops' = nops + 1
    /\ UNCHANGED <<sections, defaults, attrs, handlers>>

\* config.load() on the Config at hand: what was parsed before the
\* exception stays in the store.
LoadCall ==
    /\ LET r == load(sections, defaults, file)
       IN  /\ sections' = r.sections
           /\ defaults' = r.defaults
           /\ last' = Outcome("load", "load", None, None, None, None, r.exc, r.exc, <<>>)
    /\ track' = NoTrack
    /\ nops' = nops + 1
    /\ UNCHANGED <<attrs, handlers, file>>

\* Config(filename) or Config(filename, observable) on the same file: the
\* new instance replaces the one at hand unless its construction raises.
ReopenCall ==
    /\ \E shared \in BOOLEAN :
         LET r == construct(file)
         IN  IF r.exc = "none"
             THEN /\ sections' = r.sections
                  /\ defaults' = r.defaults
                  /\ attrs' = <<>>
                  /\ handlers' = IF shared THEN handlers ELSE [e \in Events |-> <<>>]
                  /\ last' = Outcome("__init__", "__init__", None, None, None, None,
                                     "none", "none", <<>>)
                  /\ track' = IF track.stage = "saved"
                              THEN [track EXCEPT !.stage = "fresh"]
                              ELSE NoTrack
             ELSE /\ last' = Outcome("__init__", "__init__", None, None, None, None,
                                     r.exc, r.exc, <<>>)
                  /\ track' = NoTrack
                  /\ UNCHANGED <<sections, defaults, attrs, handlers>>
    /\ nops' = nops + 1
    /\ UNCHANGED file

\* observable.subscribe(event, handler)
subscribe(obs, event, handler) == [obs EXCEPT ![event] = Append(@, handler)]

SubscribeCall ==
    /\ \E event \in Events, handler \in Behaviours :
         /\ Len(handlers[event]) < MaxHandlers
         /\ handlers' = subscribe(handlers, event, handler)
    /\ last' = Outcome("subscribe", "subscribe", None, None, None, None, "none", "none",
                       <<>>)
    /\ track' = NoTrack
    /\ nops' = nops + 1
    /\ UNCHANGED <<sections, defaults, attrs, file>>

\* A run of Spec: at most MaxOps calls on the Config or its Observable.
Set == nops < MaxOps /\ SetCall

SetDefault == nops < MaxOps /\ SetDefaultCall

SetAttr == nops < MaxOps /\ SetAttrCall

Remove == nops < MaxOps /\ RemoveCall

Get == nops < MaxOps /\ GetCall

GetDefault == nops < MaxOps /\ GetDefaultCall

ToDict == nops < MaxOps /\ ToDictCall

Save == nops < MaxOps /\ SaveCall

Load == nops < MaxOps /\ LoadCall

Reopen == nops < MaxOps /\ ReopenCall

Subscribe == nops < MaxOps /\ SubscribeCall

Next ==
    \/ Set
    \/ SetDefault
    \/ SetAttr
    \/ Remove
    \/ Get
    \/ GetDefault
    \/ ToDict
    \/ Save
    \/ Load
    \/ Reopen
    \/ Subscribe

Spec == Init /\ [][Next]_vars

\* A run of SpecPersist: at most MaxPersistOps of the calls that write the
\* store or move it to and from the file.
PersistSet == nops < MaxPersistOps /\ SetCall

PersistSetDefault == nops < MaxPersistOps /\ SetDefaultCall

PersistSetAttr == nops < MaxPersistOps /\ SetAttrCall

PersistSave == nops < MaxPersistOps /\ SaveCall

PersistLoad == nops < MaxPersistOps /\ LoadCall

PersistReopen == nops < MaxPersistOps /\ ReopenCall

NextPersist ==
    \/ PersistSet
    \/ PersistSetDefault
    \/ PersistSetAttr
    \/ PersistSave
    \/ PersistLoad
    \/ PersistReopen

SpecPersist == Init /\ [][NextPersist]_vars

(***************************************************************************)
(* What the claims speak of.                                               *)
(***************************************************************************)
\* (section, key) is held by the store: the key is among the section's own
\* items, or among the defaults when the section is the default section.
DirectlySet(secs, defs, section, key) ==
    IF section = DEFAULTSECT THEN DictHas(defs, LowerCase(key))
    ELSE /\ has_section(secs, section)
         /\ DictHas(DictGet(secs, section), LowerCase(key))

\* Keys that differ in letter case only.
CaseVariants(k1, k2) == k1 # k2 /\ LowerCase(k1) = LowerCase(k2)

\* The keys held by a section, the default section included.
KeysOf(secs, defs, section) ==
    IF section = DEFAULTSECT THEN DictKeys(defs)
    ELSE IF has_section(secs, section) THEN DictKeys(DictGet(secs, section))
    ELSE {}

\* The calls a delivery to every handler of "setting_changed" consists of.
FullDelivery(obs, section, key, value, secs, defs) ==
    [i \in 1..Len(obs["setting_changed"]) |->
        [event |-> "setting_changed", handler |-> i, args |-> <<section, key, value>>,
         sections |-> secs, defaults |-> defs]]

(***************************************************************************)
(* C1.  Round trip: immediately after set(section, key, value) returns,    *)
(* get(section, key) returns exactly value.  (Stated for the non-empty      *)
(* section names; the empty name is C7's matter.)                          *)
(***************************************************************************)
C1_RoundTrip ==
    (last.op = "set" /\ last.exc = "none" /\ last.section # <<>>)
        => get(sections, defaults, last.section, last.key, None) = Ok(last.value)

(***************************************************************************)
(* C2.  remove(section, key) with a key returns true exactly when the      *)
(* setting (section, key) was held by the store before the call, and a     *)
(* call that returns false leaves the store as it was.                     *)
(***************************************************************************)
C2_RemoveReturn ==
    [][(last'.op = "remove" /\ last'.key # None)
          => /\ last'.ret = DirectlySet(sections, defaults, last'.section, last'.key)
             /\ (last'.ret = FALSE => (sections' = sections /\ defaults' = defaults))]_vars

C4_PersistRoundTrip ==
    track.stage = "fresh"
        => get(sections, defaults, track.section, track.key, None) = Ok(track.value)

(***************************************************************************)
(* C5.  As claimed: to_dict() maps every section held to the keys set      *)
(* directly in it, so a key set only in the default section appears in no  *)
(* other section's mapping; to_dict(section) is that section's mapping, or *)
(* None when the section is absent.                                        *)
(***************************************************************************)
C5_OwnKeysOnly ==
    (last.op = "to_dict" /\ last.exc = "none")
        => IF last.section = None
           THEN /\ DictKeys(last.ret) = DictKeys(sections)
                /\ \A n \in DictKeys(sections) :
                       DictKeys(DictGet(last.ret, n)) = DictKeys(DictGet(sections, n))
           ELSE IF has_section(sections, last.section)
                THEN /\ last.ret # None
                     /\ DictKeys(last.ret) = DictKeys(DictGet(sections, last.section))
                ELSE last.ret = None

(***************************************************************************)
(* C5, amended.  to_dict() maps every section other than the default       *)
(* section (which gets no entry of its own) to a mapping that holds the    *)
(* keys set directly in the section together with every key of the default *)
(* section, each with the value get(section, key) returns; to_dict(section)*)
(* is that section's mapping, or None when the section is absent, as the   *)
(* default section always is.                                              *)
(***************************************************************************)
C5_MappingOf(d, n) ==
    /\ DictKeys(d) = DictKeys(DictGet(sections, n)) \cup DictKeys(defaults)
    /\ \A k \in DictKeys(d) : Ok(DictGet(d, k)) = get(sections, defaults, n, k, None)

C5_OwnAndDefaultKeys ==
    (last.op = "to_dict" /\ last.exc = "none")
        => IF last.section = None
           THEN /\ DictKeys(last.ret) = DictKeys(sections)
                /\ DEFAULTSECT \notin DictKeys(last.ret)
                /\ \A n \in DictKeys(sections) : C5_MappingOf(DictGet(last.ret, n), n)
           ELSE IF has_section(sections, last.section)
                THEN last.ret # None /\ C5_MappingOf(last.ret, last.section)
                ELSE last.ret = None

\* to_dict() returned while a section lacks a key that the defaults hold
C5_Witness ==
    /\ last.op = "to_dict"
    /\ last.exc = "none"
    /\ last.section = None
    /\ \E n \in DictKeys(sections) :
           \E k \in DictKeys(defaults) :
               /\ k \notin DictKeys(DictGet(sections, n))
               /\ k \in DictKeys(DictGet(last.ret, n))

(***************************************************************************)
(* C6.  For a section name s and a key k not set directly in s but set in  *)
(* the default section, get(s, k, fallback) returns the default section's  *)
(* value for k and not fallback.  (Stated for the non-empty section names; *)
(* the empty name is C7's matter.)                                         *)
(***************************************************************************)
C6_DefaultSectionFallback ==
    ( /\ last.op = "get"
      /\ last.section # <<>>
      /\ ~DirectlySet(sections, defaults, last.section, last.key)
      /\ DictHas(defaults, LowerCase(last.key)) )
        => /\ last.exc = "none"
           /\ last.ret = DictGet(defaults, LowerCase(last.key))

(***************************************************************************)
(* C7.  In every reachable state no section of the store has an empty      *)
(* name, and none is named as the default section.                         *)
(***************************************************************************)
C7_SectionNames ==
    \A n \in DictKeys(sections) : n # <<>> /\ n # DEFAULTSECT

(***************************************************************************)
(* C8.  As claimed: keys are case-sensitive; for keys k1 and k2 that       *)
(* differ only in letter case, set(section, k1, v) leaves the result of    *)
(* get(section, k2) as it was.  (Stated for the non-empty section names;   *)
(* the empty name is C7's matter.)                                         *)
(***************************************************************************)
C8_CaseSensitive ==
    [][(last'.op = "set" /\ last'.exc = "none" /\ last'.section # <<>>)
          => \A k2 \in Keys :
                 CaseVariants(last'.key, k2)
                     => get(sections', defaults', last'.section, k2, None)
                            = get(sections, defaults, last'.section, k2, None)]_vars

(***************************************************************************)
(* C8, amended.  Keys are case-insensitive: a key is lower-cased when it   *)
(* is stored and when it is looked up.  For keys k1 and k2 that differ     *)
(* only in letter case, after set(section, k1, v) returns, get(section,    *)
(* k2) returns what get(section, k1) returns, the store holds the value    *)
(* under the lower-cased key, and no key of the store has an upper-case    *)
(* letter, so k1 and k2 are one setting.                                   *)
(***************************************************************************)
AllKeysLower ==
    /\ \A k \in DictKeys(defaults) : LowerCase(k) = k
    /\ \A n \in DictKeys(sections) :
           \A k \in DictKeys(DictGet(sections, n)) : LowerCase(k) = k

C8_CaseInsensitive ==
    /\ AllKeysLower
    /\ (last.op = "set" /\ last.exc = "none")
          => /\ ChainGet(sections, defaults, last.section, LowerCase(last.key))
                    = last.value
             /\ \A k2 \in Keys :
                    CaseVariants(last.key, k2)
                        => get(sections, defaults, last.section, k2, None)
                               = get(sections, defaults, last.section, last.key, None)

\* a set with an upper-case key returned and the lower-case key reads its value
C8_Witness ==
    /\ last.op = "set"
    /\ last.exc = "none"
    /\ last.key = <<"K">>
    /\ last.value = <<"a">>
    /\ get(sections, defaults, last.section, <<"k">>, None) = Ok(<<"a">>)

(***************************************************************************)
(* C9.  After remove(section) with no key, get(section, key, "X") returns  *)
(* "X" for every key the section held before the call.                     *)
(***************************************************************************)
C9_RemovedSectionUnset ==
    [][(last'.op = "remove" /\ last'.key = None)
          => \A k \in KeysOf(sections, defaults, last'.section) :
                 get(sections', defaults', last'.section, k, <<"X">>) = Ok(<<"X">>)]_vars

(***************************************************************************)
(* C10.  get(section, key, fallback) on a (section, key) that is set       *)
(* neither in the section nor in the default section returns fallback      *)
(* without raising and changes nothing: the store, the file and the        *)
(* subscriptions stay as they were and no handler is called.               *)
(***************************************************************************)
Unset(secs, defs, section, key) ==
    /\ ~DirectlySet(secs, defs, section, key)
    /\ ~DictHas(defs, LowerCase(key))

C10_GetUnset ==
    [][(last'.op = "get" /\ Unset(sections, defaults, last'.section, last'.key))
          => /\ last'.exc = "none"
             /\ last'.ret = last'.value
             /\ last'.calls = <<>>
             /\ UNCHANGED <<sections, defaults, attrs, handlers, file>>]_vars

\* a get of an unset key returned the fallback
C10_Witness ==
    /\ last.op = "get"
    /\ last.via = "get"
    /\ Unset(sections, defaults, last.section, last.key)
    /\ last.exc = "none"
    /\ last.ret = <<"X">>
    /\ sections # <<>>

====
